---- MODULE Spec2Model ----
(***************************************************************************)
(* Jacobi eigenvalue decomposition of a real symmetric matrix (math.eigs). *)
(*                                                                         *)
(* Numbers.  The code computes in IEEE doubles and 64-digit decimals; the  *)
(* model computes exactly.  A value is a record [a, b, e] standing for     *)
(*      (a + b * sqrt(2)) * 10^(-e)                                        *)
(* so that decimal literals (12, 0.8, 1e-13), the default precision 1e-12  *)
(* and cos(pi/4) = sin(pi/4) = sqrt(2)/2 are all exact.  An element of a   *)
(* matrix is a value tagged with its JavaScript type, [k, v], because the  *)
(* relational operators of JavaScript act differently on a number, a       *)
(* Fraction (valueOf is a number) and a BigNumber (valueOf is a string).   *)
(* Arrays are functions on 0..n-1, as in the source.                       *)
(***************************************************************************)
EXTENDS Integers, Sequences, FiniteSets, TLC

---------------------------------------------------------------------------
(* Exact values                                                            *)

Abs(n) == IF n < 0 THEN -n ELSE n

Min(m, n) == IF m < n THEN m ELSE n

Max(m, n) == IF m < n THEN n ELSE m

RECURSIVE Pow10(_)
Pow10(k) == IF k <= 0 THEN 1 ELSE 10 * Pow10(k - 1)

\* the normal form: the least exponent e >= 0
RECURSIVE Norm(_, _, _)
Norm(a, b, e) ==
    IF a = 0 /\ b = 0 THEN [a |-> 0, b |-> 0, e |-> 0]
    ELSE IF e > 0 /\ a % 10 = 0 /\ b % 10 = 0 THEN Norm(a \div 10, b \div 10, e - 1)
    ELSE [a |-> a, b |-> b, e |-> e]

Dec(a, e) == Norm(a, 0, e)

Whole(a) == Norm(a, 0, 0)

Zero == Whole(0)

One == Whole(1)

IsZero(u) == u.a = 0 /\ u.b = 0

NNeg(u) == [a |-> -u.a, b |-> -u.b, e |-> u.e]

NAdd(u, v) ==
    IF IsZero(u) THEN v
    ELSE IF IsZero(v) THEN u
    ELSE LET E == Max(u.e, v.e)
             fu == Pow10(E - u.e)
             fv == Pow10(E - v.e)
         IN  Norm(u.a * fu + v.a * fv, u.b * fu + v.b * fv, E)

NSub(u, v) == NAdd(u, NNeg(v))

\* (a1 + b1 r)(a2 + b2 r) = a1 a2 + 2 b1 b2 + (a1 b2 + a2 b1) r,  r = sqrt(2)
NMul(u, v) ==
    Norm(u.a * v.a + 2 * u.b * v.b, u.a * v.b + u.b * v.a, u.e + v.e)

SignInt(n) == IF n < 0 THEN -1 ELSE IF n = 0 THEN 0 ELSE 1

\* the sign of A - B sqrt(2) for A, B >= 0, without forming squares:
\* for B < A < 2B, A > B sqrt(2) exactly when 2B - A < (A - B) sqrt(2)
RECURSIVE Root2Cmp(_, _)
Root2Cmp(A, B) ==
    IF B = 0 THEN SignInt(A)
    ELSE IF A <= B THEN -1
    ELSE IF A - B >= B THEN 1
    ELSE -Root2Cmp(B - (A - B), A - B)

\* the sign of a + b sqrt(2)
NSign(u) ==
    IF u.b = 0 THEN SignInt(u.a)
    ELSE IF u.a = 0 THEN SignInt(u.b)
    ELSE IF SignInt(u.a) = SignInt(u.b) THEN SignInt(u.a)
    ELSE SignInt(u.a) * Root2Cmp(Abs(u.a), Abs(u.b))

NAbs(u) == IF NSign(u) < 0 THEN NNeg(u) ELSE u

\* L * 10^k compared with R, for L, R >= 0: -1, 0 or 1, without forming 10^k
RECURSIVE ScaledCmp(_, _, _)
ScaledCmp(L, k, R) ==
    IF k = 0 THEN SignInt(L - R)
    ELSE IF L = 0 THEN (IF R = 0 THEN 0 ELSE -1)
    ELSE IF L >= R THEN 1
    ELSE ScaledCmp(10 * L, k - 1, R)

\* u compared with v: -1, 0 or 1
NCmp(u, v) ==
    IF u.b = 0 /\ v.b = 0
    THEN LET su == SignInt(u.a)
             sv == SignInt(v.a)
             mag == IF u.e <= v.e
                    THEN ScaledCmp(Abs(u.a), v.e - u.e, Abs(v.a))
                    ELSE -ScaledCmp(Abs(v.a), u.e - v.e, Abs(u.a))
         IN  IF su # sv THEN SignInt(su - sv)
             ELSE IF su = 0 THEN 0
             ELSE su * mag
    ELSE NSign(NSub(u, v))

NLess(u, v) == NCmp(u, v) < 0

NLeq(u, v) == NCmp(u, v) <= 0

---------------------------------------------------------------------------
(* Elements: a value with its JavaScript type                              *)

Number(v) == [k |-> "number", v |-> v]

BigNumber(v) == [k |-> "BigNumber", v |-> v]

Fraction(v) == [k |-> "Fraction", v |-> v]

\* an element of a type eigs does not support
Complex(v) == [k |-> "Complex", v |-> v]

\* arrays are indexed from 0
Length(arr) == Cardinality(DOMAIN arr)

\* the array of the elements of a tuple
Row(t) == [j \in 0..(Len(t) - 1) |-> t[j + 1]]

\* the element of type k with value v
Element(k, v) ==
    CASE k = "number" -> Number(v)
      [] k = "BigNumber" -> BigNumber(v)
      [] k = "Fraction" -> Fraction(v)
      [] OTHER -> Complex(v)

\* the 2D array of the decimals ints[i][j] * 10^(-e), every one of type k
Typed(k, e, ints) ==
    [i \in 0..(Len(ints) - 1) |->
        [j \in 0..(Len(ints[i + 1]) - 1) |-> Element(k, Dec(ints[i + 1][j + 1], e))]]

\* the values of a 2D array, types dropped
Values2(M) == [i \in DOMAIN M |-> [j \in DOMAIN M[i] |-> M[i][j].v]]

Values1(E) == [i \in DOMAIN E |-> E[i].v]

---------------------------------------------------------------------------
(* BigNumber.valueOf(): the decimal string, as a tuple of character codes  *)

RECURSIVE Digits(_)
Digits(n) == IF n < 10 THEN <<48 + n>> ELSE Digits(n \div 10) \o <<48 + (n % 10)>>

RECURSIVE Zeros(_)
Zeros(k) == IF k <= 0 THEN <<>> ELSE <<48>> \o Zeros(k - 1)

\* a * 10^(-e) for a > 0, in normal notation or, from 1e-7 down, exponential
UnsignedStr(a, e) ==
    LET D == Digits(a)
        L == Len(D)
        X == L - 1 - e
    IN  IF X <= -7
        THEN <<D[1]>> \o (IF L > 1 THEN <<46>> \o SubSeq(D, 2, L) ELSE <<>>)
                      \o <<101, 45>> \o Digits(-X)
        ELSE IF e = 0 THEN D
        ELSE IF L > e THEN SubSeq(D, 1, L - e) \o <<46>> \o SubSeq(D, L - e + 1, L)
        ELSE <<48, 46>> \o Zeros(e - L) \o D

\* the value as the decimal it prints as; sqrt(2) is cut to 1.4142
Decimal(u) == IF u.b = 0 THEN u ELSE Norm(u.a * 10000 + u.b * 14142, 0, u.e + 4)

valueOfBig(u) ==
    LET d == Decimal(u)
    IN  IF d.a = 0 THEN <<48>>
        ELSE IF d.a < 0 THEN <<45>> \o UnsignedStr(-d.a, d.e)
        ELSE UnsignedStr(d.a, d.e)

\* s < t for two strings: by the first code unit that differs
StrLess(s, t) ==
    \E i \in 1..(Min(Len(s), Len(t)) + 1) :
        /\ \A h \in 1..(i - 1) : s[h] = t[h]
        /\ \/ i > Len(s) /\ i <= Len(t)
           \/ i <= Len(s) /\ i <= Len(t) /\ s[i] < t[i]

\* p < q in JavaScript: both operands go through valueOf(); two strings are
\* compared as strings, anything else as numbers
JsLess(p, q) ==
    IF p.k = "BigNumber" /\ q.k = "BigNumber"
    THEN StrLess(valueOfBig(p.v), valueOfBig(q.v))
    ELSE NLess(p.v, q.v)

---------------------------------------------------------------------------
(* Arithmetic of the two paths                                             *)

\* the native operators: operands through valueOf(), the result a number
jsMul(p, q) == Number(NMul(p.v, q.v))

jsAdd(p, q) == Number(NAdd(p.v, q.v))

jsSub(p, q) == Number(NSub(p.v, q.v))

MathAbs(p) == Number(NAbs(p.v))

\* the typed mathjs functions: a number operand is converted when the other
\* is a BigNumber
Join(p, q) == IF p.k = "BigNumber" \/ q.k = "BigNumber" THEN "BigNumber" ELSE "number"

multiplyScalar(p, q) == [k |-> Join(p, q), v |-> NMul(p.v, q.v)]

addScalar(p, q) == [k |-> Join(p, q), v |-> NAdd(p.v, q.v)]

subtract(p, q) == [k |-> Join(p, q), v |-> NSub(p.v, q.v)]

abs(p) == [k |-> p.k, v |-> NAbs(p.v)]

bignumber(p) == BigNumber(p.v)

\* equal(a, b) of the element family
equal(p, q) == p.v = q.v

---------------------------------------------------------------------------
(* Angles: an angle is kept as its cosine and sine, with the type of theta *)

Angle(k, c, s) == [k |-> k, c |-> c, s |-> s]

\* the angles whose cosine and sine are exact in the model
UnitCircle ==
    { <<Whole(1), Whole(0)>>,                              \* 0
      <<Dec(8, 1), Dec(6, 1)>>, <<Dec(8, 1), Dec(-6, 1)>>, \* +- atan(3/4)
      <<[a |-> 0, b |-> 5, e |-> 1], [a |-> 0, b |-> 5, e |-> 1]>>, \* pi/4
      <<Dec(6, 1), Dec(8, 1)>>,                            \* atan(4/3)
      <<Whole(0), Whole(1)>> }                             \* pi/2

\* Math.PI / 4.0
PiOver4 == Angle("number", [a |-> 0, b |-> 5, e |-> 1], [a |-> 0, b |-> 5, e |-> 1])

cos(theta) == [k |-> theta.k, v |-> theta.c]

sin(theta) == [k |-> theta.k, v |-> theta.s]

\* 0.5 * atan(num / den): the angle t in (-pi/4, pi/4) with tan(2t) = num / den,
\* that is cos(2t) > 0 and sin(2t) * den = num * cos(2t)
IsHalfAtan(cs, num, den) ==
    LET cos2 == NSub(NMul(cs[1], cs[1]), NMul(cs[2], cs[2]))
        sin2 == NMul(Whole(2), NMul(cs[1], cs[2]))
    IN  /\ NSign(cos2) > 0
        /\ NMul(sin2, den) = NMul(num, cos2)

halfAtan(k, num, den) ==
    LET t == CHOOSE cs \in UnitCircle : IsHalfAtan(cs, num, den)
    IN  Angle(k, t[1], t[2])

\* the angle of the rotation at a pivot with these entries is one of UnitCircle
ExactAngle(aii, ajj, aij) ==
    \/ NLeq(NAbs(NSub(ajj.v, aii.v)), Dec(1, 14))
    \/ \E cs \in UnitCircle : IsHalfAtan(cs, NMul(Whole(2), aij.v), NSub(ajj.v, aii.v))

\* get angle
getTheta(aii, ajj, aij) ==
    LET denom == jsSub(ajj, aii)
    IN  IF NLeq(MathAbs(denom).v, Dec(1, 14))
        THEN PiOver4
        ELSE halfAtan("number", NMul(Whole(2), aij.v), denom.v)

\* get angle
getThetaBig(aii, ajj, aij) ==
    LET denom == subtract(ajj, aii)
    IN  IF NLeq(abs(denom).v, Dec(1, 14))
        THEN PiOver4
        ELSE halfAtan(Join(aij, denom), NMul(Whole(2), aij.v), denom.v)

---------------------------------------------------------------------------
(* The rotation engine                                                     *)

\* M[a][b] = val
Put(M, a, b, val) == [M EXCEPT ![a][b] = val]

\* Identity without Sij[i][i] = 1.0
IdentityUnset(N) == [i \in 0..(N - 1) |-> [j \in 0..(N - 1) |-> Number(Zero)]]

\* the identity matrix diag and diagBig start Sij from
Identity(N) ==
    [i \in 0..(N - 1) |-> [j \in 0..(N - 1) |-> IF i = j THEN Number(One) ELSE Number(Zero)]]

\* the second loop of Sij1 and Sij1Big, from row k on
RECURSIVE SijWrite(_, _, _, _, _, _)
SijWrite(Sij, Ski, Skj, i, j, k) ==
    IF k >= Length(Sij) THEN Sij
    ELSE SijWrite(Put(Put(Sij, k, i, Ski[k]), k, j, Skj[k]), Ski, Skj, i, j, k + 1)

\* Sij1 with Skj[k] = s * Sij[k][i] - c * Sij[k][j]
Sij1Minus(Sij, theta, i, j) ==
    LET N == Length(Sij)
        c == Number(theta.c)
        s == Number(theta.s)
        Ski == [k \in 0..(N - 1) |-> jsSub(jsMul(c, Sij[k][i]), jsMul(s, Sij[k][j]))]
        Skj == [k \in 0..(N - 1) |-> jsSub(jsMul(s, Sij[k][i]), jsMul(c, Sij[k][j]))]
    IN  SijWrite(Sij, Ski, Skj, i, j, 0)

\* Sij1 with Skj[k] read after Sij[k][i] = Ski[k]
Sij1InPlace(Sij, theta, i, j) ==
    LET N == Length(Sij)
        c == Number(theta.c)
        s == Number(theta.s)
        Ski == [k \in 0..(N - 1) |-> jsSub(jsMul(c, Sij[k][i]), jsMul(s, Sij[k][j]))]
        Skj == [k \in 0..(N - 1) |-> jsAdd(jsMul(s, Ski[k]), jsMul(c, Sij[k][j]))]
    IN  SijWrite(Sij, Ski, Skj, i, j, 0)

\* update eigvec
Sij1(Sij, theta, i, j) ==
    LET N == Length(Sij)
        c == Number(theta.c)
        s == Number(theta.s)
        Ski == [k \in 0..(N - 1) |-> jsSub(jsMul(c, Sij[k][i]), jsMul(s, Sij[k][j]))]
        Skj == [k \in 0..(N - 1) |-> jsAdd(jsMul(s, Sij[k][i]), jsMul(c, Sij[k][j]))]
    IN  SijWrite(Sij, Ski, Skj, i, j, 0)

\* update eigvec for overlap
Sij1Big(Sij, theta, i, j) ==
    LET N == Length(Sij)
        c == cos(theta)
        s == sin(theta)
        Ski == [k \in 0..(N - 1) |->
                  subtract(multiplyScalar(c, Sij[k][i]), multiplyScalar(s, Sij[k][j]))]
        Skj == [k \in 0..(N - 1) |->
                  addScalar(multiplyScalar(s, Sij[k][i]), multiplyScalar(c, Sij[k][j]))]
    IN  SijWrite(Sij, Ski, Skj, i, j, 0)

\* HijWrite without Hij[k][i] = Aki[k] and Hij[k][j] = Akj[k]
RECURSIVE HijWriteRows(_, _, _, _, _, _)
HijWriteRows(Hij, Aki, Akj, i, j, k) ==
    IF k >= Length(Hij) THEN Hij
    ELSE IF k # i /\ k # j
    THEN HijWriteRows(Put(Put(Hij, i, k, Aki[k]), j, k, Akj[k]), Aki, Akj, i, j, k + 1)
    ELSE HijWriteRows(Hij, Aki, Akj, i, j, k + 1)

\* the second loop of x1 and x1Big, from index k on
RECURSIVE HijWrite(_, _, _, _, _, _)
HijWrite(Hij, Aki, Akj, i, j, k) ==
    IF k >= Length(Hij) THEN Hij
    ELSE IF k # i /\ k # j
    THEN HijWrite(Put(Put(Put(Put(Hij, i, k, Aki[k]), k, i, Aki[k]), j, k, Akj[k]), k, j, Akj[k]),
                  Aki, Akj, i, j, k + 1)
    ELSE HijWrite(Hij, Aki, Akj, i, j, k + 1)

\* update matrix
x1(Hij, theta, i, j) ==
    LET N == Length(Hij)
        c == Number(theta.c)
        s == Number(theta.s)
        c2 == jsMul(c, c)
        s2 == jsMul(s, s)
        two == Number(Whole(2))
        csHij == jsMul(jsMul(jsMul(two, c), s), Hij[i][j])
        Aii == jsAdd(jsSub(jsMul(c2, Hij[i][i]), csHij), jsMul(s2, Hij[j][j]))
        Ajj == jsAdd(jsAdd(jsMul(s2, Hij[i][i]), csHij), jsMul(c2, Hij[j][j]))
        Aki == [k \in 0..(N - 1) |-> jsSub(jsMul(c, Hij[i][k]), jsMul(s, Hij[j][k]))]
        Akj == [k \in 0..(N - 1) |-> jsAdd(jsMul(s, Hij[i][k]), jsMul(c, Hij[j][k]))]
        H1 == Put(Hij, i, i, Aii)
        H2 == Put(H1, j, j, Ajj)
        H3 == Put(H2, i, j, Number(Zero))
        H4 == Put(H3, j, i, Number(Zero))
    IN  HijWrite(H4, Aki, Akj, i, j, 0)

\* update matrix
x1Big(Hij, theta, i, j) ==
    LET N == Length(Hij)
        c == bignumber(cos(theta))
        s == bignumber(sin(theta))
        c2 == multiplyScalar(c, c)
        s2 == multiplyScalar(s, s)
        two == Number(Whole(2))
        csHij == multiplyScalar(multiplyScalar(multiplyScalar(two, c), s), Hij[i][j])
        Aii == addScalar(subtract(multiplyScalar(c2, Hij[i][i]), csHij),
                         multiplyScalar(s2, Hij[j][j]))
        Ajj == addScalar(addScalar(multiplyScalar(s2, Hij[i][i]), csHij),
                         multiplyScalar(c2, Hij[j][j]))
        Aki == [k \in 0..(N - 1) |->
                  subtract(multiplyScalar(c, Hij[i][k]), multiplyScalar(s, Hij[j][k]))]
        Akj == [k \in 0..(N - 1) |->
                  addScalar(multiplyScalar(s, Hij[i][k]), multiplyScalar(c, Hij[j][k]))]
        H1 == Put(Hij, i, i, Aii)
        H2 == Put(H1, j, j, Ajj)
        H3 == Put(H2, i, j, Number(Zero))
        H4 == Put(H3, j, i, Number(Zero))
    IN  HijWrite(H4, Aki, Akj, i, j, 0)

---------------------------------------------------------------------------
(* The pivot selector                                                      *)

\* the pair after (i, j) in the scan for (i = 0..N-1) for (j = i+1..N-1); the
\* scan is over when i reaches N
NextIJ(i, j, N) == IF j + 1 < N THEN <<i, j + 1>> ELSE <<i + 1, i + 2>>

\* the scan of getAij from (i, j) on, with the maximum found so far
RECURSIVE getAijFrom(_, _, _, _, _)
getAijFrom(Mij, i, j, maxIJ, maxMij) ==
    LET N == Length(Mij)
    IN  IF i >= N THEN <<maxIJ, maxMij>>
        ELSE IF j >= N THEN getAijFrom(Mij, i + 1, i + 2, maxIJ, maxMij)
        ELSE IF JsLess(MathAbs(maxMij), MathAbs(Mij[i][j]))
        THEN getAijFrom(Mij, NextIJ(i, j, N)[1], NextIJ(i, j, N)[2], <<i, j>>, MathAbs(Mij[i][j]))
        ELSE getAijFrom(Mij, NextIJ(i, j, N)[1], NextIJ(i, j, N)[2], maxIJ, maxMij)

\* getAij with the inner loop of row 0 begun at j = 0
getAijDiagonal(Mij) == getAijFrom(Mij, 0, 0, <<0, 1>>, Number(Zero))

\* get max off-diagonal value from Upper Diagonal
getAij(Mij) == getAijFrom(Mij, 0, 1, <<0, 1>>, Number(Zero))

\* the scan of getAijBig from (i, j) on
RECURSIVE getAijBigFrom(_, _, _, _, _)
getAijBigFrom(Mij, i, j, maxIJ, maxMij) ==
    LET N == Length(Mij)
    IN  IF i >= N THEN <<maxIJ, maxMij>>
        ELSE IF j >= N THEN getAijBigFrom(Mij, i + 1, i + 2, maxIJ, maxMij)
        ELSE IF JsLess(abs(maxMij), abs(Mij[i][j]))
        THEN getAijBigFrom(Mij, NextIJ(i, j, N)[1], NextIJ(i, j, N)[2], <<i, j>>, abs(Mij[i][j]))
        ELSE getAijBigFrom(Mij, NextIJ(i, j, N)[1], NextIJ(i, j, N)[2], maxIJ, maxMij)

\* get max off-diagonal value from Upper Diagonal
getAijBig(Mij) == getAijBigFrom(Mij, 0, 1, <<0, 1>>, Number(Zero))

---------------------------------------------------------------------------
(* The spectrum sorter                                                     *)

\* arr.splice(at, 1): arr without its element at index at
Splice(arr, at) ==
    [t \in 0..(Length(arr) - 2) |-> IF t < at THEN arr[t] ELSE arr[t + 1]]

\* Array(N): N empty slots
Empty == [k |-> "undefined", v |-> Zero]

Blank(N) == [t \in 0..(N - 1) |-> Empty]

\* the inner loop of sorting from index j on: the index of the minimum
RECURSIVE minIDFrom(_, _, _)
minIDFrom(E, j, minID) ==
    IF j >= Length(E) THEN minID
    ELSE IF JsLess(E[j], E[minID]) THEN minIDFrom(E, j + 1, j)
    ELSE minIDFrom(E, j + 1, minID)

\* sortingFrom without S[k].splice(minID, 1)
RECURSIVE sortingFromKeepS(_, _, _, _, _, _)
sortingFromKeepS(E, S, Ef, Sf, i, N) ==
    IF i >= N THEN <<Ef, Sf>>
    ELSE LET minID == minIDFrom(E, 0, 0)
         IN  sortingFromKeepS(Splice(E, minID),
                              S,
                              [Ef EXCEPT ![i] = E[minID]],
                              [k \in 0..(N - 1) |-> [Sf[k] EXCEPT ![i] = S[k][minID]]],
                              i + 1, N)

\* the outer loop of sorting from output position i on
RECURSIVE sortingFrom(_, _, _, _, _, _)
sortingFrom(E, S, Ef, Sf, i, N) ==
    IF i >= N THEN <<Ef, Sf>>
    ELSE LET minID == minIDFrom(E, 0, 0)
         IN  sortingFrom(Splice(E, minID),
                         [k \in 0..(N - 1) |-> Splice(S[k], minID)],
                         [Ef EXCEPT ![i] = E[minID]],
                         [k \in 0..(N - 1) |-> [Sf[k] EXCEPT ![i] = S[k][minID]]],
                         i + 1, N)

\* sort results
sorting(E, S) ==
    LET N == Length(E)
    IN  sortingFrom(E, S, Blank(N), [k \in 0..(N - 1) |-> Blank(N)], 0, N)

---------------------------------------------------------------------------
(* The matrix collaborator                                                 *)

\* matrix(x) of a 1D, 2D or 3D array, or the Matrix handed in: its size, its
\* declared datatype and its data
Matrix1(datatype, data) ==
    [size |-> <<Length(data)>>, datatype |-> datatype, data |-> data]

Matrix2(datatype, data) ==
    [size |-> <<Length(data), Length(data[0])>>, datatype |-> datatype, data |-> data]

Matrix3(datatype, data) ==
    [size |-> <<Length(data), Length(data[0]), Length(data[0][0])>>,
     datatype |-> datatype, data |-> data]

\* x.getDataType(): the type all elements share, or 'mixed'
getDataType(m) ==
    LET kinds == {m.data[i][j].k : i \in 0..(m.size[1] - 1), j \in 0..(m.size[2] - 1)}
    IN  IF Cardinality(kinds) = 1 THEN CHOOSE k \in kinds : TRUE ELSE "mixed"

\* x.toArray(): a copy of the data
toArray(m) == m.data

\* the conversion loop of the Fraction branch, applied to its local copy xArr
RECURSIVE fractionValueOf(_, _, _, _)
fractionValueOf(xArr, i, j, n) ==
    IF i >= n THEN xArr
    ELSE IF j >= n THEN fractionValueOf(xArr, i + 1, i + 1, n)
    ELSE fractionValueOf(Put(Put(xArr, i, j, Number(xArr[i][j].v)), j, i, Number(xArr[i][j].v)),
                         i, j + 1, n)

---------------------------------------------------------------------------
(* Inputs                                                                  *)

\* the most calls of eigs one caller makes on the same argument
MaxCalls == 2

\* symmetric matrices whose rotation angles are all exact: the integers are
\* in units of 10^(-e)
Exact ==
    { <<0, <<<<1>>>> >>,
      <<0, <<<<1, 0>>, <<0, 1>>>> >>,
      <<0, <<<<1, 0, 0>>, <<0, 1, 0>>, <<0, 0, 1>>>> >>,
      <<0, <<<<2, 0>>, <<0, 1>>>> >>,
      <<0, <<<<10, 0>>, <<0, 9>>>> >>,
      <<0, <<<<0, 12>>, <<12, 7>>>> >>,
      <<0, <<<<7, 12>>, <<12, 0>>>> >>,
      <<0, <<<<1, 1>>, <<1, 1>>>> >>,
      <<0, <<<<0, 12, 0>>, <<12, 7, 0>>, <<0, 0, 3>>>> >>,
      <<0, <<<<7, 0, -12>>, <<0, 20, 0>>, <<-12, 0, 0>>>> >>,
      <<0, <<<<3, 0, 0>>, <<0, 5, 5>>, <<0, 5, 5>>>> >>,
      <<2, <<<<-1600, 960, -720>>, <<960, 324, 1632>>, <<-720, 1632, 1276>>>> >>,
      <<2, <<<<-324, 960, -1632>>, <<960, 1600, -720>>, <<-1632, -720, -1276>>>> >>,
      <<0, <<<<0, 12, 0, 0>>, <<12, 7, 0, 0>>, <<0, 0, 7, -12>>, <<0, 0, -12, 0>>>> >>,
      <<13, <<<<0, 1>>, <<1, 0>>>> >>,
      <<13, <<<<0, 5>>, <<5, 0>>>> >>,
      <<13, <<<<0, 0, 3>>, <<0, 0, 0>>, <<3, 0, 0>>>> >>,
      <<13, <<<<0, 3, 10000>>, <<3, 0, 0>>, <<10000, 0, 0>>>> >> }

\* square matrices that are not symmetric
Skew ==
    { <<0, <<<<1, 2>>, <<3, 4>>>> >>,
      <<0, <<<<1, 2, 3>>, <<2, 4, 5>>, <<3, 6, 7>>>> >>,
      <<0, <<<<1, 2, 3>>, <<2, 4, 5>>, <<9, 6, 7>>>> >> }

\* arrays that are not square
Oblong ==
    { <<0, <<<<1, 2, 3>>, <<4, 5, 6>>>> >>,
      <<0, <<<<1, 2>>, <<3, 4>>, <<5, 6>>>> >> }

\* a square array whose elements are of two types
Mix(t) == [Typed("number", t[1], t[2]) EXCEPT ![0][0] = BigNumber(@.v)]

\* the arguments of eigs: square and not, symmetric and not, of every family
Arguments ==
    {Matrix2(d, Typed("number", t[1], t[2])) :
        d \in {"undefined", "number"}, t \in Exact \cup Skew \cup Oblong}
    \cup {Matrix2("undefined", Typed("BigNumber", t[1], t[2])) : t \in Exact \cup Skew \cup Oblong}
    \cup {Matrix2("undefined", Typed("Fraction", t[1], t[2])) : t \in Exact \cup Skew}
    \cup {Matrix2("undefined", Typed("Complex", t[1], t[2])) : t \in Skew \cup Oblong \cup {<<0, <<<<1, 2>>, <<2, 1>>>> >>}}
    \cup {Matrix2("undefined", Mix(t)) : t \in Skew \cup Oblong \cup {<<0, <<<<1, 2>>, <<2, 1>>>> >>}}

\* a 1D array and a 3D array
Argument1D == Matrix1("undefined", Row(<<Number(Whole(4)), Number(Whole(5)), Number(Whole(6))>>))

Argument3D == Matrix3("undefined", [h \in 0..1 |-> Typed("number", 0, <<<<1, 0>>, <<0, 1>>>>)])

---------------------------------------------------------------------------
(* One caller, calling eigs on its argument                                *)

VARIABLES
    file,        \* the source file of the eigs that runs
    sig,         \* the signature the call is dispatched to: "Array" or "Matrix"
    arg,         \* the caller's argument, as it is now
    arg0,        \* the caller's argument before the first call
    calls,       \* calls begun so far
    first,       \* the outcome of the first call
    pc,          \* where the call is
    n,           \* size[0]
    type,        \* the element family checkAndSubmit found
    si, sj,      \* the pair isSymmetric is at
    x,           \* the working matrix
    shared,      \* x is the caller's own array, not a copy of it
    Sij,         \* the accumulated transform
    Vab,         \* the pivot: <<<<i, j>>, magnitude>>
    rot,         \* rotations done in this call
    classified,  \* the element family has been asked for in this call
    compared,    \* pairs isSymmetric has compared in this call
    routine,     \* "diag" or "diagBig", once one is entered
    out          \* the outcome of the call

vars == <<file, sig, arg, arg0, calls, first, pc, n, type, si, sj, x, shared,
          Sij, Vab, rot, classified, compared, routine, out>>

NoOutcome ==
    [kind |-> "none", error |-> "", message |-> "", values |-> <<>>, vectors |-> <<>>,
     wrap |-> ""]

Throw(error, message) ==
    [kind |-> "throw", error |-> error, message |-> message, values |-> <<>>,
     vectors |-> <<>>, wrap |-> ""]

\* { values, vectors }, vectors an Array or wrapped in a Matrix
Return(values, vectors, wrap) ==
    [kind |-> "return", error |-> "", message |-> "", values |-> values,
     vectors |-> vectors, wrap |-> wrap]

\* the state of a call that has not begun
Fresh ==
    /\ pc = "eigs"
    /\ n = 0
    /\ type = "none"
    /\ si = 0
    /\ sj = 0
    /\ x = <<>>
    /\ shared = FALSE
    /\ Sij = <<>>
    /\ Vab = <<<<0, 1>>, Number(Zero)>>
    /\ rot = 0
    /\ classified = FALSE
    /\ compared = 0
    /\ routine = "none"
    /\ out = NoOutcome

Init ==
    /\ file = "eigs.js"
    /\ sig \in {"Array", "Matrix"}
    /\ \/ arg \in Arguments
       \/ arg = Argument1D
       \/ arg = Argument3D
    /\ sig = "Array" => arg.datatype = "undefined"
    /\ arg0 = arg
    /\ calls = 1
    /\ first = NoOutcome
    /\ Fresh

\* NotSquare without its comparison of the two dimensions
NotSquareAnyTwoDims(size) == Len(size) # 2

\* size.length !== 2 || size[0] !== size[1]
NotSquare(size) == Len(size) # 2 \/ size[1] # size[2]

\* Array: function (x) and Matrix: function (x), up to the call of checkAndSubmit
Eigs ==
    /\ pc = "eigs"
    /\ file = "eigs.js"
    /\ IF NotSquare(arg.size)
       THEN /\ out' = Throw("RangeError", "Matrix must be square")
            /\ pc' = "done"
            /\ n' = n
       ELSE /\ n' = arg.size[1]
            /\ pc' = "checkAndSubmit"
            /\ out' = out
    /\ UNCHANGED <<file, sig, arg, arg0, calls, first, type, si, sj, x, shared, Sij, Vab,
                   rot, classified, compared, routine>>

\* Supported without its rejection of the other types
SupportedAnyUniform(t) == t # "mixed"

Supported(t) == t = "number" \/ t = "BigNumber" \/ t = "Fraction"

\* checkAndSubmit: the type check
CheckType ==
    /\ pc = "checkAndSubmit"
    /\ LET t == IF arg.datatype = "undefined" THEN getDataType(arg) ELSE arg.datatype
       IN  /\ type' = t
           /\ classified' = TRUE
           /\ IF ~Supported(t)
              THEN /\ out' = IF t = "mixed"
                             THEN Throw("TypeError", "Mixed matrix element type is not supported")
                             ELSE Throw("TypeError", "Matrix element type not supported")
                   /\ pc' = "done"
              ELSE /\ pc' = "isSymmetric"
                   /\ out' = out
    /\ si' = 0
    /\ sj' = 0
    /\ UNCHANGED <<file, sig, arg, arg0, calls, first, n, x, shared, Sij, Vab, rot,
                   compared, routine>>

\* NextPair with an inner bound one short: the last column is never compared
NextPairShort(i, j, size) == IF j + 1 < size - 1 THEN <<i, j + 1>> ELSE <<i + 1, i + 1>>

\* the pair after (i, j) in for (i = 0..n-1) for (j = i..n-1); the scan is
\* over when i reaches n
NextPair(i, j, size) == IF j + 1 < size THEN <<i, j + 1>> ELSE <<i + 1, i + 1>>

\* isSymmetric(x.toArray(), n): one pair
SymStep ==
    /\ pc = "isSymmetric"
    /\ compared' = compared + 1
    /\ LET a == toArray(arg)
       IN  IF ~equal(a[si][sj], a[sj][si])
           THEN /\ out' = Throw("TypeError", "Input matrix is not symmetric")
                /\ pc' = "done"
                /\ UNCHANGED <<si, sj>>
           ELSE /\ si' = NextPair(si, sj, n)[1]
                /\ sj' = NextPair(si, sj, n)[2]
                /\ pc' = IF NextPair(si, sj, n)[1] >= n THEN "submit" ELSE "isSymmetric"
                /\ out' = out
    /\ UNCHANGED <<file, sig, arg, arg0, calls, first, n, type, x, shared, Sij, Vab, rot,
                   classified, routine>>

\* RoutineFor with diag for type === 'number' alone
RoutineForNumberAlone(t) == IF t = "number" THEN "diag" ELSE "diagBig"

\* the routine that decomposes a matrix of family t
RoutineFor(t) == IF t = "BigNumber" THEN "diagBig" ELSE "diag"

\* checkAndSubmit: the choice of the routine, and the routine up to its loop.
\* What the Fraction branch converts is its copy xArr; diag is handed another
\* copy, x.toArray().
Submit ==
    /\ pc = "submit"
    /\ LET xArr == fractionValueOf(toArray(arg), 0, 0, n)
       IN  x' = toArray(arg)
    /\ shared' = FALSE
    /\ routine' = RoutineFor(type)
    /\ Sij' = Identity(Length(x'))
    /\ Vab' = IF routine' = "diag" THEN getAij(x') ELSE getAijBig(x')
    /\ pc' = "loop"
    /\ UNCHANGED <<file, sig, arg, arg0, calls, first, n, type, si, sj, rot, classified,
                   compared, out>>

\* the default precision
precision == Dec(1, 12)

\* Math.abs(Vab[1]) >= Math.abs(e0), e0 = Math.abs(precision / N): stated
\* without the division as N * |Vab[1]| >= |precision|
AboveE0(m, N) == NLeq(NAbs(precision), NMul(Whole(N), NAbs(m.v)))

\* the body of the while loop of diag and of diagBig: one rotation.  The model
\* follows a run for as long as its angles are exact.
Rotate ==
    /\ pc = "loop"
    /\ AboveE0(Vab[2], Length(x))
    /\ ExactAngle(x[Vab[1][1]][Vab[1][1]], x[Vab[1][2]][Vab[1][2]], x[Vab[1][1]][Vab[1][2]])
    /\ LET i == Vab[1][1]
           j == Vab[1][2]
       IN  \/ /\ routine = "diag"
              /\ LET psi == getTheta(x[i][i], x[j][j], x[i][j])
                 IN  /\ x' = x1(x, psi, i, j)
                     /\ Sij' = Sij1(Sij, psi, i, j)
              /\ Vab' = getAij(x')
           \/ /\ routine = "diagBig"
              /\ LET psi == getThetaBig(x[i][i], x[j][j], x[i][j])
                 IN  /\ x' = x1Big(x, psi, i, j)
                     /\ Sij' = Sij1Big(Sij, psi, i, j)
              /\ Vab' = getAijBig(x')
    /\ rot' = rot + 1
    /\ arg' = IF shared THEN [arg EXCEPT !.data = x'] ELSE arg
    /\ UNCHANGED <<file, sig, arg0, calls, first, pc, n, type, si, sj, shared, classified,
                   compared, routine, out>>

\* the eigenvalues diag and diagBig read off the diagonal
Ei == [i \in 0..(Length(x) - 1) |-> x[i][i]]

\* the loop is left: diag or diagBig sorts and eigs returns
Converged ==
    /\ pc = "loop"
    /\ file = "eigs.js"
    /\ ~AboveE0(Vab[2], Length(x))
    /\ LET ans == sorting(Ei, Sij)
       IN  out' = Return(ans[1], ans[2], sig)
    /\ pc' = "done"
    /\ UNCHANGED <<file, sig, arg, arg0, calls, first, n, type, si, sj, x, shared, Sij,
                   Vab, rot, classified, compared, routine>>

\* the caller calls eigs again, on the same argument
CallAgain ==
    /\ pc = "done"
    /\ calls < MaxCalls
    /\ calls' = calls + 1
    /\ first' = IF calls = 1 THEN out ELSE first
    /\ pc' = "eigs"
    /\ n' = 0
    /\ type' = "none"
    /\ si' = 0
    /\ sj' = 0
    /\ x' = <<>>
    /\ shared' = FALSE
    /\ Sij' = <<>>
    /\ Vab' = <<<<0, 1>>, Number(Zero)>>
    /\ rot' = 0
    /\ classified' = FALSE
    /\ compared' = 0
    /\ routine' = "none"
    /\ out' = NoOutcome
    /\ UNCHANGED <<file, sig, arg, arg0>>

Next == Eigs \/ CheckType \/ SymStep \/ Submit \/ Rotate \/ Converged \/ CallAgain

Spec == Init /\ [][Next]_vars

---------------------------------------------------------------------------
(* The eigs of part_001: no type check, no symmetry check, no sorting; its  *)
(* getAij, getTheta, x1 and Sij1 are those of eigs.js, Sij1 reading the     *)
(* cosine and sine off Rot(theta)                                           *)

\* the arguments of the eigs of part_001
Arguments001 ==
    {Matrix2(d, Typed("number", t[1], t[2])) :
        d \in {"undefined", "number"}, t \in Exact \cup Oblong}

Init001 ==
    /\ file = "part_001"
    /\ sig \in {"Array", "Matrix"}
    /\ \/ arg \in Arguments001
       \/ arg = Argument1D
       \/ arg = Argument3D
    /\ sig = "Array" => arg.datatype = "undefined"
    /\ arg0 = arg
    /\ calls = 1
    /\ first = NoOutcome
    /\ Fresh

\* Array: function (x), which hands diag the caller's x, and Matrix:
\* function (x), which hands it x.toArray(); then diag up to its loop
Eigs001 ==
    /\ pc = "eigs"
    /\ file = "part_001"
    /\ IF NotSquare(arg.size)
       THEN /\ out' = Throw("RangeError", "Matrix must be square")
            /\ pc' = "done"
            /\ UNCHANGED <<x, shared, Sij, Vab, routine>>
       ELSE /\ x' = IF sig = "Array" THEN arg.data ELSE toArray(arg)
            /\ shared' = (sig = "Array")
            /\ routine' = "diag"
            /\ Sij' = Identity(Length(x'))
            /\ Vab' = getAij(x')
            /\ pc' = "loop"
            /\ out' = out
    /\ UNCHANGED <<file, sig, arg, arg0, calls, first, n, type, si, sj, rot, classified,
                   compared>>

\* the loop of diag is left: return [Ei, Sij]
Return001 ==
    /\ pc = "loop"
    /\ file = "part_001"
    /\ ~AboveE0(Vab[2], Length(x))
    /\ out' = Return(Ei, Sij, "Array")
    /\ pc' = "done"
    /\ UNCHANGED <<file, sig, arg, arg0, calls, first, n, type, si, sj, x, shared, Sij,
                   Vab, rot, classified, compared, routine>>

Next001 == Eigs001 \/ Rotate \/ Return001 \/ CallAgain

Spec001 == Init001 /\ [][Next001]_vars

---------------------------------------------------------------------------
(* The rotation engine on its own: x1 and Sij1, x1Big and Sij1Big, applied  *)
(* to a symmetric matrix at any pivot with any angle of UnitCircle          *)

\* the most rotations applied to one matrix
MaxRot == 2

\* symmetric matrices, in units of 10^(-e)
Symmetric ==
    { <<0, <<<<1, 2>>, <<2, 3>>>> >>,
      <<0, <<<<1, 2, 3>>, <<2, 0, -1>>, <<3, -1, 2>>>> >>,
      <<0, <<<<0, 2, -2>>, <<2, 1, 2>>, <<-2, 2, 0>>>> >>,
      <<1, <<<<5, 0, 9>>, <<0, 5, 10>>, <<9, 10, 0>>>> >> }

InitEngine ==
    /\ file = "eigs.js"
    /\ sig = "Array"
    /\ arg \in {Matrix2("undefined", Typed("number", t[1], t[2])) : t \in Symmetric}
               \cup {Matrix2("undefined", Typed("BigNumber", t[1], t[2])) : t \in Symmetric}
    /\ arg0 = arg
    /\ calls = 1
    /\ first = NoOutcome
    /\ pc = "engine"
    /\ n = arg.size[1]
    /\ type = getDataType(arg)
    /\ si = 0
    /\ sj = 0
    /\ x = toArray(arg)
    /\ shared = FALSE
    /\ Sij = Identity(n)
    /\ routine = RoutineFor(type)
    /\ Vab = IF routine = "diag" THEN getAij(x) ELSE getAijBig(x)
    /\ rot = 0
    /\ classified = FALSE
    /\ compared = 0
    /\ out = NoOutcome

\* one rotation of x and of Sij at a pivot i < j with an angle of UnitCircle
RotateAt ==
    /\ pc = "engine"
    /\ rot < MaxRot
    /\ \E i, j \in 0..(Length(x) - 1), cs \in UnitCircle :
          /\ i < j
          /\ IF routine = "diag"
             THEN LET psi == Angle("number", cs[1], cs[2])
                  IN  /\ x' = x1(x, psi, i, j)
                      /\ Sij' = Sij1(Sij, psi, i, j)
                      /\ Vab' = getAij(x')
             ELSE LET psi == Angle("BigNumber", cs[1], cs[2])
                  IN  /\ x' = x1Big(x, psi, i, j)
                      /\ Sij' = Sij1Big(Sij, psi, i, j)
                      /\ Vab' = getAijBig(x')
    /\ rot' = rot + 1
    /\ UNCHANGED <<file, sig, arg, arg0, calls, first, pc, n, type, si, sj, shared,
                   classified, compared, routine, out>>

\* the eigenvalues are read off and sorted with the columns of Sij
SortAt ==
    /\ pc = "engine"
    /\ LET ans == sorting(Ei, Sij)
       IN  out' = Return(ans[1], ans[2], sig)
    /\ pc' = "done"
    /\ UNCHANGED <<file, sig, arg, arg0, calls, first, n, type, si, sj, x, shared, Sij,
                   Vab, rot, classified, compared, routine>>

NextEngine == RotateAt \/ SortAt

SpecEngine == InitEngine /\ [][NextEngine]_vars

---------------------------------------------------------------------------
(* What the claims speak of, said without the code's own operators          *)

\* the argument's size is [m, m]
SizeNN == \E m \in 0..8 : arg.size = <<m, m>>

\* the family of a square argument: declared, or else shared by its elements
Family ==
    IF arg.datatype # "undefined" THEN arg.datatype
    ELSE IF \A i, j \in 0..(arg.size[1] - 1) : arg.data[i][j].k = arg.data[0][0].k
    THEN arg.data[0][0].k
    ELSE "mixed"

SupportedFamily == Family \in {"number", "BigNumber", "Fraction"}

\* x[a][b] and x[b][a] of the argument differ
Mismatch(a, b) == arg.data[a][b].v # arg.data[b][a].v

\* the pairs i <= j of the argument
Pairs == {ab \in (0..(arg.size[1] - 1)) \X (0..(arg.size[1] - 1)) : ab[1] <= ab[2]}

\* (a, b) comes before (c, d) in row-major order
Before(a, b, c, d) == a < c \/ (a = c /\ b < d)

\* the argument is the identity matrix
IsIdentity ==
    /\ SizeNN
    /\ arg.size[1] >= 1
    /\ \A i, j \in 0..(arg.size[1] - 1) : arg.data[i][j].v = IF i = j THEN One ELSE Zero

\* the permutations of 0..N-1
Permutations0(N) ==
    {p \in [0..(N - 1) -> 0..(N - 1)] : \A a, b \in 0..(N - 1) : p[a] = p[b] => a = b}

---------------------------------------------------------------------------
(* Claims                                                                  *)

\* C1: the values eigs returns are sorted ascending, values[k] <= values[k+1]
\* for all k, in numeric order, for every supported family.
C1_ValuesAscending ==
    out.kind = "return" =>
        \A k \in 0..(Length(out.values) - 2) : NLeq(out.values[k].v, out.values[k + 1].v)

\* C2: an argument whose size is not [n, n] is rejected with 'Matrix must be
\* square', before the element type is classified, before symmetry is checked
\* and before any rotation.
C2_NotSquareRejectedFirst ==
    (pc # "eigs" /\ ~SizeNN) =>
        /\ pc = "done"
        /\ out = Throw("RangeError", "Matrix must be square")
        /\ ~classified
        /\ compared = 0
        /\ rot = 0
        /\ routine = "none"

C2_Witness ==
    /\ pc = "done"
    /\ out.message = "Matrix must be square"
    /\ arg.size = <<2, 3>>
    /\ arg.data[0][0].k = "Complex"

\* C3: a square argument of a supported family with some x[i][j] # x[j][i],
\* i <= j, fails with TypeError 'not symmetric' at the first such pair in
\* row-major order; no rotation is performed and nothing is returned.
C3_FirstMismatchRejected ==
    (SizeNN /\ SupportedFamily /\ \E ab \in Pairs : Mismatch(ab[1], ab[2])) =>
        /\ pc \in {"eigs", "checkAndSubmit", "isSymmetric", "done"}
        /\ rot = 0
        /\ routine = "none"
        /\ out.kind # "return"
        /\ pc = "done" =>
              /\ out = Throw("TypeError", "Input matrix is not symmetric")
              /\ Mismatch(si, sj)
              /\ \A ab \in Pairs : Before(ab[1], ab[2], si, sj) => ~Mismatch(ab[1], ab[2])

C3_Witness ==
    /\ pc = "done"
    /\ out.message = "Input matrix is not symmetric"
    /\ si = 0
    /\ sj = 2
    /\ Mismatch(1, 2)

\* C4: a square argument whose family is mixed or unsupported fails with a
\* TypeError (mixed, respectively unsupported) before the symmetry scan and
\* before the iterative phase, also when it is not symmetric.
C4_TypeErrorBeforeSymmetry ==
    (SizeNN /\ ~SupportedFamily /\ pc \notin {"eigs", "checkAndSubmit"}) =>
        /\ pc = "done"
        /\ out = IF Family = "mixed"
                 THEN Throw("TypeError", "Mixed matrix element type is not supported")
                 ELSE Throw("TypeError", "Matrix element type not supported")
        /\ compared = 0
        /\ rot = 0
        /\ routine = "none"

C4_Witness ==
    /\ pc = "done"
    /\ SizeNN
    /\ Family = "Complex"
    /\ Mismatch(0, 1)
    /\ out.error = "TypeError"

\* C5: for the identity matrix of size N >= 1 eigs performs no rotation and
\* returns N ones and the N x N identity matrix.
C5_Identity ==
    (IsIdentity /\ SupportedFamily) =>
        /\ rot = 0
        /\ pc = "done" =>
              /\ out.kind = "return"
              /\ Values1(out.values) = [i \in 0..(arg.size[1] - 1) |-> One]
              /\ Values2(out.vectors) =
                     [i \in 0..(arg.size[1] - 1) |->
                        [j \in 0..(arg.size[1] - 1) |-> IF i = j THEN One ELSE Zero]]

C5_Witness ==
    /\ pc = "done"
    /\ IsIdentity
    /\ arg.size = <<3, 3>>
    /\ Family = "BigNumber"
    /\ out.kind = "return"

\* C6: the sorter applies one permutation p to the eigenvalues and to the
\* columns of S: values[i] = E[p(i)] and vectors[k][i] = S[k][p(i)].
C6_OnePermutation ==
    out.kind = "return" =>
        \E p \in Permutations0(Length(x)) :
            \A i \in 0..(Length(x) - 1) :
                /\ out.values[i] = Ei[p[i]]
                /\ \A k \in 0..(Length(x) - 1) : out.vectors[k][i] = Sij[k][p[i]]

C6_Witness ==
    /\ out.kind = "return"
    /\ Length(x) = 3
    /\ rot = 2
    /\ out.values[0] = Ei[2]
    /\ out.values[1] = Ei[0]

\* C7: a call to eigs leaves the caller's input unchanged, whether it returns
\* or throws, and a second call on the same input returns the same result.
C7_InputUnchanged ==
    pc = "done" =>
        /\ arg = arg0
        /\ calls = 2 => out = first

\* the x of a matrix is symmetric
IsSymmetric(M) == \A a, b \in 0..(Length(M) - 1) : M[a][b].v = M[b][a].v

\* C8: x, symmetric before a rotation at any pivot with any angle, is
\* symmetric after it, on the number path (x1) and the BigNumber path (x1Big).
C8_StaysSymmetric == pc = "engine" => IsSymmetric(x)

C8_Witness ==
    /\ pc = "engine"
    /\ routine = "diagBig"
    /\ rot >= 2
    /\ Length(x) = 3
    /\ x # arg.data
    /\ \E a, b \in 0..2 : a # b /\ ~IsZero(x[a][b].v)

\* the sum over t of M[a][t] * M[b][t]
RECURSIVE RowDot(_, _, _, _)
RowDot(M, a, b, t) ==
    IF t >= Length(M) THEN Zero
    ELSE NAdd(NMul(M[a][t].v, M[b][t].v), RowDot(M, a, b, t + 1))

\* M * transpose(M) = I
Orthogonal(M) ==
    \A a, b \in 0..(Length(M) - 1) : RowDot(M, a, b, 0) = IF a = b THEN One ELSE Zero

\* C9: S starts as the identity and is orthogonal after every rotation at any
\* pivot with any (c, s), c^2 + s^2 = 1; so are the vectors returned.
C9_StaysOrthogonal ==
    /\ rot = 0 => Values2(Sij) = Values2(Identity(Length(x)))
    /\ Orthogonal(Sij)
    /\ out.kind = "return" => Orthogonal(out.vectors)

C9_Witness ==
    /\ out.kind = "return"
    /\ routine = "diag"
    /\ rot >= 2
    /\ Length(x) = 3
    /\ \E a \in 0..2 : \A b \in 0..2 : ~IsZero(out.vectors[a][b].v)

\* the pairs i < j of x
Upper == {ab \in (0..(Length(x) - 1)) \X (0..(Length(x) - 1)) : ab[1] < ab[2]}

\* C10: the pivot selector returns the pair i < j of the greatest |x[i][j]|
\* and that magnitude; of the pairs of the greatest magnitude, the first in
\* row-major order.
C10_GreatestFirst ==
    (pc = "loop" /\ Upper # {}) =>
        LET i == Vab[1][1]
            j == Vab[1][2]
        IN  /\ <<i, j>> \in Upper
            /\ Vab[2].v = NAbs(x[i][j].v)
            /\ \A ab \in Upper :
                  /\ NLeq(NAbs(x[ab[1]][ab[2]].v), Vab[2].v)
                  /\ Before(ab[1], ab[2], i, j) => NAbs(x[ab[1]][ab[2]].v) # Vab[2].v

\* C11: the loop rotates again while the greatest off-diagonal magnitude is
\* >= |precision / N| and is left only when it is below; so once the loop
\* has been left, every x[i][j], i < j, is below |precision / N| in magnitude.
C11_ExitBelowTolerance ==
    out.kind = "return" =>
        \A ab \in Upper :
            NLess(NMul(Whole(Length(x)), NAbs(x[ab[1]][ab[2]].v)), Dec(1, 12))

\* the rotation of 4.4 at (i, j) with cosine c and sine s, entry by entry from
\* the values H before it
RotatedX(H, c, s, i, j) ==
    LET cs2 == NMul(Whole(2), NMul(c, s))
        c2 == NMul(c, c)
        s2 == NMul(s, s)
        At(a, b) ==
            IF a = i /\ b = i
            THEN NAdd(NSub(NMul(c2, H[i][i]), NMul(cs2, H[i][j])), NMul(s2, H[j][j]))
            ELSE IF a = j /\ b = j
            THEN NAdd(NAdd(NMul(s2, H[i][i]), NMul(cs2, H[i][j])), NMul(c2, H[j][j]))
            ELSE IF (a = i /\ b = j) \/ (a = j /\ b = i) THEN Zero
            ELSE IF a = i THEN NSub(NMul(c, H[i][b]), NMul(s, H[j][b]))
            ELSE IF b = i THEN NSub(NMul(c, H[i][a]), NMul(s, H[j][a]))
            ELSE IF a = j THEN NAdd(NMul(s, H[i][b]), NMul(c, H[j][b]))
            ELSE IF b = j THEN NAdd(NMul(s, H[i][a]), NMul(c, H[j][a]))
            ELSE H[a][b]
    IN  [a \in DOMAIN H |-> [b \in DOMAIN H |-> At(a, b)]]

\* the update of 4.4 of columns i and j of the values S
RotatedS(S, c, s, i, j) ==
    [k \in DOMAIN S |->
        [b \in DOMAIN S |->
            IF b = i THEN NSub(NMul(c, S[k][i]), NMul(s, S[k][j]))
            ELSE IF b = j THEN NAdd(NMul(s, S[k][i]), NMul(c, S[k][j]))
            ELSE S[k][b]]]

\* C12: the in-place updates of x (x1, x1Big) and of S (Sij1, Sij1Big) give
\* the matrices the formulas of 4.4 give on an untouched copy of x and S from
\* before the rotation, at every pivot and angle.
C12_SnapshotReads ==
    (pc = "engine" /\ rot < MaxRot) =>
        \A ab \in Upper, cs \in UnitCircle :
            LET i == ab[1]
                j == ab[2]
                X == RotatedX(Values2(x), cs[1], cs[2], i, j)
                S == RotatedS(Values2(Sij), cs[1], cs[2], i, j)
            IN  IF routine = "diag"
                THEN /\ Values2(x1(x, Angle("number", cs[1], cs[2]), i, j)) = X
                     /\ Values2(Sij1(Sij, Angle("number", cs[1], cs[2]), i, j)) = S
                ELSE /\ Values2(x1Big(x, Angle("BigNumber", cs[1], cs[2]), i, j)) = X
                     /\ Values2(Sij1Big(Sij, Angle("BigNumber", cs[1], cs[2]), i, j)) = S

C12_Witness ==
    /\ pc = "engine"
    /\ rot = 1
    /\ routine = "diagBig"
    /\ Length(x) = 3
    /\ ~IsZero(x[0][1].v)
    /\ ~IsZero(x[1][2].v)
    /\ ~IsZero(Sij[0][2].v)

\* C13 as stated: after validation a number matrix is decomposed by diag and
\* a matrix of any other supported family, BigNumber or Fraction, by diagBig.
C13_OthersByDiagBig ==
    /\ pc = "loop" => routine # "none"
    /\ routine # "none" => routine = IF Family = "number" THEN "diag" ELSE "diagBig"

\* C13, amended: after validation a number matrix and a Fraction matrix are
\* decomposed by diag, and a BigNumber matrix by diagBig.
C13_FractionByDiag ==
    /\ pc = "loop" => routine # "none"
    /\ routine # "none" =>
          /\ SupportedFamily
          /\ Family \in {"number", "Fraction"} => routine = "diag"
          /\ Family = "BigNumber" => routine = "diagBig"

C13_Witness ==
    /\ routine = "diag"
    /\ Family = "Fraction"
    /\ rot >= 1
    /\ out.kind = "return"

\* C14: whenever the loop body runs its pivot (i, j) has 0 <= i < j < N; the
\* default pivot [0, 1], returned with magnitude 0 when no x[i][j], i < j, is
\* of positive magnitude, never passes the loop condition.
C14_ValidPivot ==
    LET N == Length(x)
        i == Vab[1][1]
        j == Vab[1][2]
        runs == pc = "loop" /\ NLeq(Dec(1, 12), NMul(Whole(N), NAbs(Vab[2].v)))
    IN  /\ runs => (0 <= i /\ i < j /\ j < N)
        /\ rot > 0 => N >= 2
        /\ (pc = "loop" /\ \A ab \in Upper : IsZero(x[ab[1]][ab[2]].v)) =>
              /\ Vab[1] = <<0, 1>>
              /\ IsZero(Vab[2].v)
              /\ ~runs

C14_Witness ==
    /\ out.kind = "return"
    /\ Length(x) = 1
    /\ Vab[1] = <<0, 1>>
    /\ rot = 0

====
